---- MODULE Spec2Model ----
(***************************************************************************)
(* Model of X11_active_window.py: the focus/title resolver (last_seen),    *)
(* the input-driven accounting step (check_if_device_active), and the      *)
(* save_to_disk_thread flush task that writes window_actives to            *)
(* Activity.csv.                                                           *)
(*                                                                         *)
(* Time is one integer clock (seconds).  time.perf_counter() and           *)
(* datetime.datetime.now() are both read from it: the two clocks advance   *)
(* together and never go backward.                                         *)
(***************************************************************************)
EXTENDS Integers, Sequences, FiniteSets, TLC

\* ---------------------------------------------------------------- bounds
MaxTime == 16
MaxIntervals == 2
MaxRows == 4

\* ------------------------------------------------------ program constants
IdleThreshold == 5
GraceSeconds == 10
MemThreshold == 1

\* Python's None, as a window id and as a title.
NoneXid == -1
None == "<None>"

\* X11 window ids the window manager may report; 0 is "no window focused".
Windows == {1, 2}

\* Property atoms and event types of the notifications.
NET_ACTIVE_WINDOW == "_NET_ACTIVE_WINDOW"
NET_WM_NAME == "_NET_WM_NAME"
WM_NAME == "WM_NAME"
OtherAtom == "_NET_WM_STATE"
PropertyNotify == "PropertyNotify"

\* What root.get_full_property(NET_ACTIVE_WINDOW) may answer: nothing, or a
\* window id (0 when no window has the focus).
NoResponse == NoneXid
Responses == {NoResponse, 0} \cup Windows

\* What win_obj.get_full_property(atom) may answer for a title property: no
\* property, bytes that raise UnicodeDecodeError, or a title.
Absent == "<absent>"
Undecodable == "<undecodable>"
Names == {"A", "B"}
PropVals == {Absent, Undecodable} \cup Names

\* The answers for the pair (_NET_WM_NAME, WM_NAME) of one window: one pair
\* for each path through _get_window_name_inner.
TitleProps ==
    {<<"A", Absent>>, <<Undecodable, "B">>, <<Absent, Absent>>,
     <<Absent, Undecodable>>, <<Undecodable, Absent>>}

\* The notifications next_event() may deliver, each with the answers the X
\* server gives while it is handled (fields the handler does not read are
\* fixed).
XEvent(type, atom, response, xerror, props) ==
    [type |-> type, atom |-> atom, response |-> response, xerror |-> xerror,
     netwm |-> props[1], wm |-> props[2]]

NoProps == <<Absent, Absent>>

XEvents ==
    {XEvent("FocusIn", NET_ACTIVE_WINDOW, NoResponse, FALSE, NoProps),
     XEvent(PropertyNotify, OtherAtom, NoResponse, FALSE, NoProps)}
    \cup {XEvent(PropertyNotify, NET_ACTIVE_WINDOW, r, FALSE, NoProps) :
             r \in {NoResponse, 0}}
    \cup {XEvent(PropertyNotify, NET_ACTIVE_WINDOW, w, FALSE, p) :
             w \in Windows, p \in TitleProps}
    \cup {XEvent(PropertyNotify, NET_ACTIVE_WINDOW, w, TRUE, NoProps) :
             w \in Windows}
    \cup {XEvent(PropertyNotify, a, NoResponse, FALSE, p) :
             a \in {NET_WM_NAME, WM_NAME}, p \in TitleProps}
    \cup {XEvent(PropertyNotify, a, NoResponse, TRUE, NoProps) :
             a \in {NET_WM_NAME, WM_NAME}}

\* Process memory percentages psutil may report.
MemPercents == {1, 2}

\* Steps by which the clock advances between two events.
TickSteps == {3, 5, 6}

VARIABLES
    last_seen,            \* [xid, title]
    current_title,
    prev_title,
    prev_device_counter,  \* perf_counter() at the last tick
    prev_device_time,     \* datetime.now() at the last tick
    start_device_time,    \* start of the open segment
    window_actives,       \* dict: sequence of [title, times], insertion ordered
    now,                  \* the clock
    store,                \* Activity.csv: [exists, rows]
    flush,                \* the save_to_disk_thread tasks
    event_masks,          \* windows whose event_mask is PropertyChangeMask
    mask_requests,        \* change_attributes calls of the last focus change
    input_pc              \* where check_if_device_active stands

vars == <<last_seen, current_title, prev_title, prev_device_counter,
          prev_device_time, start_device_time, window_actives, now, store,
          flush, event_masks, mask_requests, input_pc>>

maskVars == <<event_masks, mask_requests>>

cursorVars == <<prev_title, prev_device_counter, prev_device_time,
                start_device_time>>

\* ------------------------------------------------------------ dict helpers
\* window_actives is a Python dict: a sequence of [title, times] items in
\* insertion order, one item per key.
DictKeys(d) == {d[i].title : i \in 1..Len(d)}

HasKey(d, k) == k \in DictKeys(d)

DictIndex(d, k) == CHOOSE i \in 1..Len(d) : d[i].title = k

DictGet(d, k) == d[DictIndex(d, k)].times

\* d.update({k: []})
DictUpdateEmpty(d, k) ==
    IF HasKey(d, k)
    THEN [d EXCEPT ![DictIndex(d, k)].times = <<>>]
    ELSE Append(d, [title |-> k, times |-> <<>>])

\* try: d[k].append(iv)  except: d.update({k: []}); d[k].append(iv)
DictAppend(d, k, iv) ==
    IF HasKey(d, k)
    THEN [d EXCEPT ![DictIndex(d, k)].times = Append(@, iv)]
    ELSE Append(d, [title |-> k, times |-> <<iv>>])

RECURSIVE TotalIntervals(_)
TotalIntervals(d) ==
    IF d = <<>> THEN 0 ELSE Len(Head(d).times) + TotalIntervals(Tail(d))

\* --------------------------------------------------------- focus resolver
\* get_active_window(): [win_id, changed, ls] with ls the new last_seen.
get_active_window(ls, response) ==
    IF response = NoResponse
    THEN [win_id |-> NoneXid, changed |-> FALSE, ls |-> ls]
    ELSE LET focus_changed == (response # ls.xid)
         IN  [win_id |-> response,
              changed |-> focus_changed,
              ls |-> IF focus_changed THEN [ls EXCEPT !.xid = response] ELSE ls]

\* The event masks get_active_window asks for.
NoEventMask == "NoEventMask"
PropertyChangeMask == "PropertyChangeMask"

\* Faulty variant of mask_changes: the old window is not deregistered.
mask_changes_keep_old(ls, response) ==
    IF response = NoResponse \/ response = ls.xid
    THEN <<>>
    ELSE IF response = 0
    THEN <<>>
    ELSE <<[window |-> response, event_mask |-> PropertyChangeMask]>>

\* get_active_window(), lines 96-104: its change_attributes calls in the
\* order they are made; window_obj yields None for the ids None and 0.
mask_changes(ls, response) ==
    IF response = NoResponse \/ response = ls.xid
    THEN <<>>
    ELSE (IF ls.xid \in {NoneXid, 0}
          THEN <<>>
          ELSE <<[window |-> ls.xid, event_mask |-> NoEventMask]>>)
         \o (IF response = 0
             THEN <<>>
             ELSE <<[window |-> response, event_mask |-> PropertyChangeMask]>>)

\* The windows selected for PropertyNotify after the X server has served the
\* requests reqs in order; a window that is gone has no event mask.
RECURSIVE apply_masks(_, _, _)
apply_masks(masks, reqs, gone) ==
    IF reqs = <<>>
    THEN masks
    ELSE LET q == Head(reqs)
             served == IF q.event_mask = PropertyChangeMask /\ q.window \notin gone
                       THEN masks \cup {q.window}
                       ELSE masks \ {q.window}
         IN  apply_masks(served, Tail(reqs), gone)

\* handle_xevent(event): the change_attributes calls it makes.
xevent_requests(ls, type, atom, response) ==
    IF type = PropertyNotify /\ atom = NET_ACTIVE_WINDOW
    THEN mask_changes(ls, response)
    ELSE <<>>

\* The windows that are gone while an event is handled.
Gone(response, xerror) == IF xerror THEN {response} ELSE {}

\* _get_window_name_inner(win_obj): the UTF-8 property, then the legacy one;
\* the placeholder left by the last atom tried when neither yields a title.
get_window_name_inner(id, netwm, wm) ==
    IF netwm \notin {Absent, Undecodable} THEN netwm
    ELSE IF wm \notin {Absent, Undecodable} THEN wm
    ELSE (IF wm = Undecodable THEN "<could not decode characters>"
                              ELSE "<unnamed window>")
         \o " (XID: " \o ToString(id) \o ")"

\* get_window_name(win_id): [changed, ls].  xerror: the window is gone
\* (window_obj yields None, or the property read raises XError).
get_window_name(ls, win_id, xerror, netwm, wm) ==
    IF win_id \in {NoneXid, 0}
    THEN [changed |-> TRUE, ls |-> [ls EXCEPT !.title = None]]
    ELSE IF xerror
    THEN [changed |-> FALSE, ls |-> ls]
    ELSE LET win_title == get_window_name_inner(win_id, netwm, wm)
         IN  [changed |-> (win_title # ls.title),
              ls |-> [ls EXCEPT !.title = win_title]]

\* Faulty variant of xevent_result: the type of the event is not looked at.
xevent_result_any_type(ls, type, atom, response, xerror, netwm, wm) ==
    IF atom = NET_ACTIVE_WINDOW
    THEN LET a == get_active_window(ls, response)
         IN  IF a.changed
             THEN [changed |-> TRUE,
                   ls |-> get_window_name(a.ls, a.ls.xid, xerror, netwm, wm).ls]
             ELSE [changed |-> FALSE, ls |-> a.ls]
    ELSE IF atom \in {NET_WM_NAME, WM_NAME}
    THEN get_window_name(ls, ls.xid, xerror, netwm, wm)
    ELSE [changed |-> FALSE, ls |-> ls]

\* handle_xevent(event) up to the call of handle_change: [changed, ls].
xevent_result(ls, type, atom, response, xerror, netwm, wm) ==
    IF type # PropertyNotify
    THEN [changed |-> FALSE, ls |-> ls]
    ELSE IF atom = NET_ACTIVE_WINDOW
    THEN LET a == get_active_window(ls, response)
         IN  IF a.changed
             THEN [changed |-> TRUE,
                   ls |-> get_window_name(a.ls, a.ls.xid, xerror, netwm, wm).ls]
             ELSE [changed |-> FALSE, ls |-> a.ls]
    ELSE IF atom \in {NET_WM_NAME, WM_NAME}
    THEN get_window_name(ls, ls.xid, xerror, netwm, wm)
    ELSE [changed |-> FALSE, ls |-> ls]

\* ------------------------------------------------------ accounting step
\* The accounting cursor and the log as check_if_device_active sees them.
Cursor ==
    [prev_title |-> prev_title,
     prev_device_counter |-> prev_device_counter,
     prev_device_time |-> prev_device_time,
     start_device_time |-> start_device_time,
     window_actives |-> window_actives]

\* The three markers set to the time t of this step.
ResetMarkers(c, t) ==
    [c EXCEPT !.prev_device_counter = t,
              !.prev_device_time = t,
              !.start_device_time = t]

\* Faulty variant of IdleInterval: the grace period is left out.
IdleIntervalNoGrace(c) == <<c.start_device_time, c.prev_device_time>>

\* The interval an idle step closes: up to GraceSeconds after the last tick.
IdleInterval(c) ==
    <<c.start_device_time, c.prev_device_time + GraceSeconds>>

\* Faulty variant of ContinueInterval: the pair is built end first.
ContinueIntervalSwapped(c, t) == <<t, c.start_device_time>>

\* The interval a continuing step closes at time t.
ContinueInterval(c, t) == <<c.start_device_time, t>>

\* Faulty variant of IsIdle: a gap of exactly the threshold counts as idle.
IsIdleAtThreshold(c, t) == (t - c.prev_device_counter) >= IdleThreshold

\* Lines 207 and 230: is the gap since the last tick above the threshold?
IsIdle(c, t) == (t - c.prev_device_counter) > IdleThreshold

\* if current_title != prev_title: close prev_title's interval.
TitleBranch(c, cur, t) ==
    IF cur # c.prev_title
    THEN LET iv == IF IsIdle(c, t) THEN IdleInterval(c)
                                   ELSE ContinueInterval(c, t)
             closed == [c EXCEPT !.window_actives =
                                     DictAppend(@, c.prev_title, iv)]
         IN  [ResetMarkers(closed, t) EXCEPT !.prev_title = cur]
    ELSE c

\* Faulty variant of InputBranch: the refresh restarts the open segment too.
InputBranchRestart(c, cur, t) ==
    IF cur = c.prev_title
    THEN IF IsIdle(c, t)
         THEN ResetMarkers([c EXCEPT !.window_actives =
                                         DictAppend(@, cur, IdleInterval(c))],
                           t)
         ELSE ResetMarkers(c, t)
    ELSE c

\* if current_title == prev_title: idle check for the current title.
InputBranch(c, cur, t) ==
    IF cur = c.prev_title
    THEN IF IsIdle(c, t)
         THEN ResetMarkers([c EXCEPT !.window_actives =
                                         DictAppend(@, cur, IdleInterval(c))],
                           t)
         ELSE [c EXCEPT !.prev_device_counter = t, !.prev_device_time = t]
    ELSE c

check_if_device_active(c, cur, t) ==
    InputBranch(TitleBranch(c, cur, t), cur, t)

\* ------------------------------------------------------------ flush task
NaN == "<NaN>"

\* One cell of the Title column as to_csv writes it.
CsvTitle(v) == IF v \in {None, NaN} THEN "" ELSE v

\* One cell of the Start or End column as to_csv writes it: a datetime is
\* formatted, a string read from an earlier file is written as it is.
CsvTime(v, fresh) == IF fresh THEN ToString(v) ELSE v

\* df.to_csv: the rows of the file.
to_csv(df) ==
    [i \in 1..Len(df) |->
        [Title |-> CsvTitle(df[i].Title),
         Start |-> CsvTime(df[i].Start, df[i].fresh),
         End |-> CsvTime(df[i].End, df[i].fresh)]]

\* pd.read_csv: an empty Title cell is read as NaN, times stay strings.
read_csv(rows) ==
    [i \in 1..Len(rows) |->
        [Title |-> IF rows[i].Title = "" THEN NaN ELSE rows[i].Title,
         Start |-> rows[i].Start,
         End |-> rows[i].End,
         fresh |-> FALSE]]

\* The rows df.append adds for one title: {'Title', 'Start', 'End'}.
TitleRows(item) ==
    [i \in 1..Len(item.times) |->
        [Title |-> item.title,
         Start |-> item.times[i][1],
         End |-> item.times[i][2],
         fresh |-> TRUE]]

\* The rows the nested loop over win_act_cpy.items() adds, in dict order.
RECURSIVE DictRows(_)
DictRows(d) ==
    IF d = <<>> THEN <<>> ELSE TitleRows(Head(d)) \o DictRows(Tail(d))

\* for title, time_list in d.items(): time_list.clear()
ClearAll(d) == [i \in 1..Len(d) |-> [d[i] EXCEPT !.times = <<>>]]

\* The save_to_disk_thread objects that may be alive at one time.
Tasks == {1, 2}

\* A task: its position in run(), the memory percentage it read, its locals
\* df and win_act_cpy, and (history) the file rows it loaded and the log it
\* deep-copied.
NoTask ==
    [pc |-> "none", mem |-> 0, df |-> <<>>, win_act_cpy |-> <<>>,
     loaded |-> <<>>, snapshot |-> <<>>]

Spawned == [NoTask EXCEPT !.pc = "run"]

\* A task whose run() has returned or raised: its locals are gone.
Ended(task, pc) == [NoTask EXCEPT !.pc = pc, !.mem = task.mem]

\* The tasks among T that are not running.
FreeTasks(T) == {t \in T : flush[t].pc \in {"none", "done", "failed"}}

\* save_thread.start() on the first free task among T.
StartFlush(fl, T) ==
    LET t == CHOOSE u \in FreeTasks(T) : \A v \in FreeTasks(T) : u <= v
    IN  [fl EXCEPT ![t] = Spawned]

\* -------------------------------------------------------------- startup
\* Activity.csv before the program starts: no file, or rows of earlier runs.
InitStores ==
    {[exists |-> FALSE, rows |-> <<>>],
     [exists |-> TRUE, rows |-> <<[Title |-> "", Start |-> "0", End |-> "1"]>>]}

\* window_focus_thread.__init__ priming last_seen from {xid: None, title: None}.
Primed(response, xerror, netwm, wm) ==
    LET a == get_active_window([xid |-> NoneXid, title |-> None], response)
    IN  get_window_name(a.ls, a.win_id, xerror, netwm, wm).ls

\* The state after __main__ has constructed both threads, the X server
\* answering the priming as for one of the events E.
InitOf(E) ==
    /\ now = 0
    /\ \E e \in E :
          LET reqs == mask_changes([xid |-> NoneXid, title |-> None], e.response)
          IN  /\ last_seen = Primed(e.response, e.xerror, e.netwm, e.wm)
              /\ mask_requests = reqs
              /\ event_masks = apply_masks({}, reqs, Gone(e.response, e.xerror))
    /\ input_pc = "idle"
    /\ current_title = last_seen.title
    /\ prev_title = None
    /\ prev_device_counter = now
    /\ prev_device_time = now
    /\ start_device_time = now
    /\ window_actives = DictUpdateEmpty(<<>>, last_seen.title)
    /\ store \in InitStores
    /\ flush = [t \in Tasks |-> NoTask]

Init == InitOf(XEvents)

\* -------------------------------------------------------------- actions
\* The clock advances by one of the steps S.
TickBy(S) ==
    /\ \E d \in S : now + d <= MaxTime /\ now' = now + d
    /\ UNCHANGED <<last_seen, current_title, cursorVars, window_actives,
                   store, flush>>
    /\ UNCHANGED <<maskVars, input_pc>>

Tick == TickBy(TickSteps)

\* handle_xevent(display_focus.next_event()) for one of the events E,
\* handle_change included; its flush thread is one of the tasks T.
HandleXEventOf(E, T) ==
    \E e \in E :
        LET r == xevent_result(last_seen, e.type, e.atom, e.response,
                               e.xerror, e.netwm, e.wm)
            reqs == xevent_requests(last_seen, e.type, e.atom, e.response)
        IN  /\ last_seen' = r.ls
            /\ event_masks' = apply_masks(event_masks, reqs,
                                          Gone(e.response, e.xerror))
            /\ mask_requests' = IF reqs = <<>> THEN mask_requests ELSE reqs
            /\ IF r.changed
               THEN /\ FreeTasks(T) # {}
                    /\ current_title' = r.ls.title
                    /\ flush' = StartFlush(flush, T)
               ELSE UNCHANGED <<current_title, flush>>
            /\ UNCHANGED <<cursorVars, window_actives, now, store, input_pc>>

HandleXEvent == HandleXEventOf(XEvents, Tasks)

\* check_if_device_active(event) for an input event at the current time.
CheckIfDeviceActive ==
    LET c == check_if_device_active(Cursor, current_title, now)
    IN  /\ TotalIntervals(c.window_actives) <= MaxIntervals
        /\ prev_title' = c.prev_title
        /\ prev_device_counter' = c.prev_device_counter
        /\ prev_device_time' = c.prev_device_time
        /\ start_device_time' = c.start_device_time
        /\ window_actives' = c.window_actives
        /\ UNCHANGED <<last_seen, current_title, now, store, flush>>
        /\ UNCHANGED <<maskVars, input_pc>>

\* check_if_device_active line by line, each step reading current_title
\* once; the window listener may write current_title between two steps.
\* Lines 205-225: the first comparison and the closing of prev_title.
CheckL205 ==
    /\ input_pc = "idle"
    /\ IF current_title # prev_title
       THEN LET c == TitleBranch(Cursor, current_title, now)
            IN  /\ TotalIntervals(c.window_actives) <= MaxIntervals
                /\ window_actives' = c.window_actives
                /\ prev_device_counter' = c.prev_device_counter
                /\ prev_device_time' = c.prev_device_time
                /\ start_device_time' = c.start_device_time
                /\ input_pc' = "L226"
       ELSE /\ input_pc' = "L228"
            /\ UNCHANGED <<window_actives, prev_device_counter,
                           prev_device_time, start_device_time>>
    /\ UNCHANGED <<prev_title, last_seen, current_title, now, store, flush,
                   maskVars>>

\* Line 226: prev_title = current_title.
CheckL226 ==
    /\ input_pc = "L226"
    /\ prev_title' = current_title
    /\ input_pc' = "L228"
    /\ UNCHANGED <<prev_device_counter, prev_device_time, start_device_time,
                   window_actives, last_seen, current_title, now, store,
                   flush, maskVars>>

\* Lines 228-230 and 243-246: the second comparison, the idle test and the
\* refresh of the tick markers.
CheckL228 ==
    /\ input_pc = "L228"
    /\ IF current_title = prev_title
       THEN IF IsIdle(Cursor, now)
            THEN /\ input_pc' = "L234"
                 /\ UNCHANGED <<prev_device_counter, prev_device_time>>
            ELSE /\ input_pc' = "idle"
                 /\ prev_device_counter' = now
                 /\ prev_device_time' = now
       ELSE /\ input_pc' = "idle"
            /\ UNCHANGED <<prev_device_counter, prev_device_time>>
    /\ UNCHANGED <<prev_title, start_device_time, window_actives, last_seen,
                   current_title, now, store, flush, maskVars>>

\* Lines 231-241: the idle interval appended to the sequence of current_title.
CheckL234 ==
    /\ input_pc = "L234"
    /\ LET c == ResetMarkers([Cursor EXCEPT !.window_actives =
                                 DictAppend(@, current_title,
                                            IdleInterval(Cursor))],
                             now)
       IN  /\ TotalIntervals(c.window_actives) <= MaxIntervals
           /\ window_actives' = c.window_actives
           /\ prev_device_counter' = c.prev_device_counter
           /\ prev_device_time' = c.prev_device_time
           /\ start_device_time' = c.start_device_time
    /\ input_pc' = "idle"
    /\ UNCHANGED <<prev_title, last_seen, current_title, now, store, flush,
                   maskVars>>

\* Faulty variant of UnderPressure: a percentage at the threshold counts as pressure.
UnderPressureAtThreshold(m) == m >= MemThreshold

\* Line 287: is the memory percentage m above the threshold?
UnderPressure(m) == m > MemThreshold

\* run(), line 287: the memory check, psutil reporting one of M.
FlushRunOf(t, M) ==
    /\ flush[t].pc = "run"
    /\ \E m \in M :
          flush' = [flush EXCEPT ![t].mem = m,
                                 ![t].pc = IF UnderPressure(m) THEN "load"
                                                               ELSE "done"]
    /\ UNCHANGED <<last_seen, current_title, cursorVars, window_actives,
                   now, store>>
    /\ UNCHANGED <<maskVars, input_pc>>

FlushRun(t) == FlushRunOf(t, MemPercents)

\* Faulty variant of LoadFrame: the rows already in the file are not read.
LoadFrameEmpty(st) == <<>>

\* Lines 288-292: the frame run() starts from.
LoadFrame(st) == IF st.exists THEN read_csv(st.rows) ELSE <<>>

\* run(), lines 288-292: read Activity.csv or start an empty frame; a failed
\* read_csv ends the thread.
FlushLoad(t) ==
    /\ flush[t].pc = "load"
    /\ \/ flush' = [flush EXCEPT ![t].df = LoadFrame(store),
                                 ![t].loaded =
                                     IF store.exists THEN store.rows ELSE <<>>,
                                 ![t].pc = "copy"]
       \/ /\ store.exists
          /\ flush' = [flush EXCEPT ![t] = Ended(@, "failed")]
    /\ UNCHANGED <<last_seen, current_title, cursorVars, window_actives,
                   now, store>>
    /\ UNCHANGED <<maskVars, input_pc>>

\* run(), lines 293-296: deep copy of the log, one row per interval.
FlushCopy(t) ==
    /\ flush[t].pc = "copy"
    /\ flush' = [flush EXCEPT ![t].win_act_cpy = window_actives,
                              ![t].snapshot = window_actives,
                              ![t].df = @ \o DictRows(window_actives),
                              ![t].pc = "clear"]
    /\ UNCHANGED <<last_seen, current_title, cursorVars, window_actives,
                   now, store>>
    /\ UNCHANGED <<maskVars, input_pc>>

\* Faulty variant of FlushClear: the lists of the live log are cleared.
FlushClearLive(t) ==
    /\ flush[t].pc = "clear"
    /\ flush' = [flush EXCEPT ![t].pc = "save"]
    /\ window_actives' = ClearAll(window_actives)
    /\ UNCHANGED <<last_seen, current_title, cursorVars, now, store>>
    /\ UNCHANGED <<maskVars, input_pc>>

\* run(), lines 297-298: the lists of the copy are cleared.
FlushClear(t) ==
    /\ flush[t].pc = "clear"
    /\ flush' = [flush EXCEPT ![t].win_act_cpy = ClearAll(@),
                              ![t].pc = "save"]
    /\ UNCHANGED <<last_seen, current_title, cursorVars, window_actives,
                   now, store>>
    /\ UNCHANGED <<maskVars, input_pc>>

\* run(), line 299: df.to_csv; a failed write ends the thread.
FlushSave(t) ==
    /\ flush[t].pc = "save"
    /\ Len(flush[t].df) <= MaxRows
    /\ \/ /\ store' = [exists |-> TRUE, rows |-> to_csv(flush[t].df)]
          /\ flush' = [flush EXCEPT ![t] = Ended(@, "done")]
       \/ /\ flush' = [flush EXCEPT ![t] = Ended(@, "failed")]
          /\ UNCHANGED store
    /\ UNCHANGED <<last_seen, current_title, cursorVars, window_actives, now>>
    /\ UNCHANGED <<maskVars, input_pc>>

\* ------------------------------------------------------- specifications
\* The whole program: the window listener, the input listener, the clock
\* and the flush tasks.
Next ==
    \/ Tick
    \/ HandleXEvent
    \/ CheckIfDeviceActive
    \/ \E t \in Tasks : FlushRun(t)
    \/ \E t \in Tasks : FlushLoad(t)
    \/ \E t \in Tasks : FlushCopy(t)
    \/ \E t \in Tasks : FlushClear(t)
    \/ \E t \in Tasks : FlushSave(t)

Spec == Init /\ [][Next]_vars

\* The specifications below allow a part of the behaviours of Spec each: the
\* program with some of its listeners silent or with fewer inputs.

\* Notifications that resolve to a window with a title of its own, or to no
\* window: the titles None, "A" and "B".
PlainEvents ==
    {XEvent(PropertyNotify, NET_ACTIVE_WINDOW, 0, FALSE, NoProps),
     XEvent(PropertyNotify, NET_ACTIVE_WINDOW, 1, FALSE, <<"A", Absent>>),
     XEvent(PropertyNotify, NET_WM_NAME, NoResponse, FALSE,
            <<Undecodable, "B">>)}

\* The window listener and the flush tasks, one flush at a time; no input
\* event, the clock stands.
NextResolver ==
    \/ HandleXEventOf(XEvents, {1})
    \/ \E t \in Tasks : FlushRun(t)
    \/ \E t \in Tasks : FlushLoad(t)
    \/ \E t \in Tasks : FlushCopy(t)
    \/ \E t \in Tasks : FlushClear(t)
    \/ \E t \in Tasks : FlushSave(t)

SpecResolver == Init /\ [][NextResolver]_vars

\* The accounting: the clock, the input listener and the plain
\* notifications; every flush task finds the memory below the threshold.
NextAccounting ==
    \/ Tick
    \/ HandleXEventOf(PlainEvents, {1})
    \/ CheckIfDeviceActive
    \/ \E t \in Tasks : FlushRunOf(t, {m \in MemPercents : ~UnderPressure(m)})

SpecAccounting == InitOf(PlainEvents) /\ [][NextAccounting]_vars

\* Notifications of the focus moving between no window and window 1.
FocusEvents ==
    {XEvent(PropertyNotify, NET_ACTIVE_WINDOW, 0, FALSE, NoProps),
     XEvent(PropertyNotify, NET_ACTIVE_WINDOW, 1, FALSE, <<"A", Absent>>)}

\* The flush, one at a time: the focus notifications, the input listener, a
\* clock that advances by idle gaps only, and the flush task.
NextFlush ==
    \/ TickBy({IdleThreshold + 1})
    \/ HandleXEventOf(FocusEvents, {1})
    \/ CheckIfDeviceActive
    \/ \E t \in Tasks : FlushRun(t)
    \/ \E t \in Tasks : FlushLoad(t)
    \/ \E t \in Tasks : FlushCopy(t)
    \/ \E t \in Tasks : FlushClear(t)
    \/ \E t \in Tasks : FlushSave(t)

SpecFlush == InitOf(FocusEvents) /\ [][NextFlush]_vars

\* Two flush threads at a time, each a full load, deep copy, clear and save
\* under memory pressure, with the focus notifications that start them and
\* the input listener appending between their steps.
NextFlushPair ==
    \/ TickBy({IdleThreshold + 1})
    \/ HandleXEventOf(FocusEvents, Tasks)
    \/ CheckIfDeviceActive
    \/ \E t \in Tasks : FlushRunOf(t, {m \in MemPercents : UnderPressure(m)})
    \/ \E t \in Tasks : FlushLoad(t)
    \/ \E t \in Tasks : FlushCopy(t)
    \/ \E t \in Tasks : FlushClear(t)
    \/ \E t \in Tasks : FlushSave(t)

SpecFlushPair == InitOf(FocusEvents) /\ [][NextFlushPair]_vars

\* The input listener line by line against the window listener: the
\* accounting with check_if_device_active in steps; the clock stands while
\* an input event is handled.
NextRace ==
    \/ input_pc = "idle" /\ Tick
    \/ HandleXEventOf(PlainEvents, {1})
    \/ CheckL205
    \/ CheckL226
    \/ CheckL228
    \/ CheckL234
    \/ \E t \in Tasks : FlushRunOf(t, {m \in MemPercents : ~UnderPressure(m)})

SpecRace == InitOf(PlainEvents) /\ [][NextRace]_vars

\* ----------------------------------------------------- claims: helpers
\* handle_change is called in this step: a flush thread is started.
SignalEmitted ==
    \E t \in Tasks : flush[t].pc # "run" /\ flush'[t].pc = "run"

\* The sequence of title k in the dict d, empty when k is no key.
TimesOf(d, k) == IF HasKey(d, k) THEN DictGet(d, k) ELSE <<>>

\* The dict e is the dict d with exactly the interval iv appended to title k.
AppendedTo(d, e, k, iv) ==
    /\ DictKeys(e) = DictKeys(d) \cup {k}
    /\ \A key \in DictKeys(e) :
          TimesOf(e, key) = IF key = k THEN Append(TimesOf(d, k), iv)
                                       ELSE TimesOf(d, key)

\* No sequence of the dict d holds an interval.
AllEmpty(d) == \A i \in 1..Len(d) : d[i].times = <<>>

\* The rows of Activity.csv, none when the file is missing.
StoreRows(st) == IF st.exists THEN st.rows ELSE <<>>

\* The row (title, start, end) of one interval as the file holds it.
RowOf(title, iv) ==
    [Title |-> IF title = None THEN "" ELSE title,
     Start |-> ToString(iv[1]),
     End |-> ToString(iv[2])]

\* The places <<item, index>> of the intervals of the dict d.
Places(d) ==
    UNION {{<<i, j>> : j \in 1..Len(d[i].times)} : i \in 1..Len(d)}

RowAt(d, p) == RowOf(d[p[1]].title, d[p[1]].times[p[2]])

\* How often the row r occurs among the rows, and among the intervals of d.
CountIn(rows, r) == Cardinality({i \in 1..Len(rows) : rows[i] = r})
CountHeld(d, r) == Cardinality({p \in Places(d) : RowAt(d, p) = r})

\* Task t ends its save with success in this step.
Saves(t) == flush[t].pc = "save" /\ flush'[t].pc = "done"

\* ------------------------------------------------------------- claims
\* C1 (as stated): a notification that leaves the active window handle and
\* its resolved title as they were (last_seen unchanged, the state with no
\* focused window included) emits no title-changed signal.
C1_Dedup == [][(last_seen' = last_seen) => ~SignalEmitted]_vars

\* C2 (as stated): after a flush under memory pressure that saved with no
\* append since its snapshot, every sequence of window_actives is empty and
\* every title that was a key is still a key.
C2_FlushDrains ==
    [][\A t \in Tasks :
          (Saves(t) /\ window_actives = flush[t].snapshot)
          => /\ AllEmpty(window_actives')
             /\ DictKeys(window_actives') = DictKeys(flush[t].snapshot)]_vars

C9_NoPressureNoFlush ==
    [][\A t \in Tasks :
          /\ (flush'[t].pc \in {"load", "copy", "clear", "save", "failed"})
             => flush'[t].mem > MemThreshold
          /\ (flush[t].pc = "run" /\ flush'[t].pc # "run"
              /\ flush'[t].mem <= MemThreshold)
             => /\ flush'[t].pc = "done"
                /\ window_actives' = window_actives
                /\ store' = store]_vars

\* C9 witness: a task has ended on a memory percentage at the threshold.
C9_Witness ==
    \E t \in Tasks : flush[t].pc = "done" /\ flush[t].mem = MemThreshold

\* The copy of task t has lost intervals it was made with.
Cleared(t) == flush[t].win_act_cpy # flush[t].snapshot

\* The rows task t has built are the rows of the store.
Saved(t) == store.exists /\ store.rows = to_csv(flush[t].df)

\* C10 (as stated): a flush whose load or save fails leaves window_actives
\* with every interval it held, and intervals are cleared only once the save
\* has succeeded: the clear never precedes the save.
C10_ClearAfterSave ==
    [][\A t \in Tasks :
          /\ (flush[t].pc # "failed" /\ flush'[t].pc = "failed")
             => window_actives' = window_actives
          /\ (~Cleared(t) /\ Cleared(t)') => Saved(t)]_vars

\* No title-changed signal has been emitted since startup.
NoSignalYet == \A t \in Tasks : flush[t].pc = "none"

\* The gap between the current time and the last tick.
Gap == now - prev_device_counter

\* check_if_device_active closes an interval in this step.
Closes == window_actives' # window_actives

\* C4 (as stated): started with a focused window titled X, the program has
\* current_title = X and an empty sequence for X, and while no title-changed
\* signal has come and the gap since the last tick is at most 5 s no step
\* appends an interval: an input event within 5 s of startup closes none.
C4_StartupPriming ==
    [][(NoSignalYet /\ current_title # None /\ Gap <= IdleThreshold)
       => /\ current_title = last_seen.title
          /\ TimesOf(window_actives, current_title) = <<>>
          /\ window_actives' = window_actives]_vars

\* C5 (as stated): every title-changed signal, from title P to title T at
\* time N, appends exactly one closed interval to the sequence of P and
\* resets the cursor: current title T, segment start and last tick N.
C5_TitleChangeAccounting ==
    [][SignalEmitted
       => /\ \E iv \in {<<start_device_time, now>>,
                        <<start_device_time, prev_device_time + GraceSeconds>>} :
                AppendedTo(window_actives, window_actives', current_title, iv)
          /\ current_title' = last_seen'.title
          /\ start_device_time' = now
          /\ prev_device_counter' = now]_vars

\* An accounting step that finds the gap above the idle threshold.
IdleStep == prev_device_counter' # prev_device_counter /\ Gap > IdleThreshold

\* What C6 says of every idle step but for the end never being the current
\* time: the interval appended, to the title accounted so far, is
\* (segment start, last input + 10 s), and the three markers are reset.
IdleCap ==
    /\ AppendedTo(window_actives, window_actives', prev_title,
                  <<start_device_time, prev_device_time + GraceSeconds>>)
    /\ prev_device_counter' = now
    /\ prev_device_time' = now
    /\ start_device_time' = now

\* C6 (as stated): an accounting step with a gap above 5 s appends exactly
\* (segmentStart, lastInputAt + 10 s), whose end is never the time of the
\* step, and resets lastTickAt, lastInputAt and segmentStart to that time.
C6_IdleCapNeverNow ==
    [][IdleStep
       => IdleCap /\ prev_device_time + GraceSeconds # now]_vars

\* C6 (amended): an accounting step with a gap above 5 s appends exactly
\* (segmentStart, lastInputAt + 10 s) and resets the three markers; the end
\* is the time of the step only when the gap is exactly 10 s.
C6_IdleCap ==
    [][IdleStep
       => /\ IdleCap
          /\ (prev_device_time + GraceSeconds = now) <=> (Gap = GraceSeconds)]_vars

\* C6 witness: an idle step has just closed an interval that ends after the
\* current time (a gap between 5 s and 10 s).
C6_Witness ==
    /\ prev_device_counter = now
    /\ start_device_time = now
    /\ \E p \in Places(window_actives) :
          window_actives[p[1]].times[p[2]][2] > now

\* C7: an accounting step for a changed title with a gap of at most 5 s
\* appends exactly (segmentStart, N) to the sequence of the previous title,
\* N being the time of the step.
C7_ContinueCase ==
    [][(Closes /\ current_title # prev_title /\ Gap <= IdleThreshold)
       => AppendedTo(window_actives, window_actives', prev_title,
                     <<start_device_time, now>>)]_vars

\* C7 witness: a title change has just been accounted at a gap of exactly
\* 5 s: an interval of 5 s ending now.
C7_Witness ==
    /\ prev_device_counter = now
    /\ prev_title = current_title
    /\ \E p \in Places(window_actives) :
          window_actives[p[1]].times[p[2]] = <<now - IdleThreshold, now>>

\* C8: every interval of window_actives has end >= start, and the starts of
\* each title's sequence are non-decreasing in insertion order.
C8_IntervalClosure ==
    \A i \in 1..Len(window_actives) :
        LET times == window_actives[i].times
        IN  /\ \A j \in 1..Len(times) : times[j][2] >= times[j][1]
            /\ \A j, k \in 1..Len(times) :
                  j < k => times[j][1] <= times[k][1]

\* C8 witness: a title holds two intervals, the second starting later.
C8_Witness ==
    \E i \in 1..Len(window_actives) :
        LET times == window_actives[i].times
        IN  Len(times) >= 2 /\ times[1][1] < times[2][1]

\* Some flush task is between its load and its save.
FlushRunning == \E t \in Tasks : flush[t].pc \in {"load", "copy", "clear", "save"}

\* The row r is among the intervals of the dict d, or among the rows.
HeldIn(d, r) == \E p \in Places(d) : RowAt(d, p) = r
RowIn(rows, r) == \E i \in 1..Len(rows) : rows[i] = r

\* C11: while a flush task runs (load, deep copy, row append, clear, save),
\* no step of any thread loses an interval of the log: every interval
\* window_actives holds before the step, those appended during the flush
\* included, is after the step still in window_actives or a row of the store.
C11_AppendsNotLost ==
    [][FlushRunning
       => \A p \in Places(window_actives) :
             LET r == RowAt(window_actives, p)
             IN  \/ HeldIn(window_actives', r)
                 \/ RowIn(StoreRows(store'), r)]_vars

\* An interval was appended after the deep copy of a flush that has not yet
\* saved.
C11_Witness ==
    \E t \in Tasks :
        /\ flush[t].pc \in {"clear", "save"}
        /\ TotalIntervals(window_actives) > TotalIntervals(flush[t].snapshot)

\* The titles _get_window_name_inner may resolve for the window w.
ResolvableTitles(w) ==
    {get_window_name_inner(w, p[1], p[2]) : p \in TitleProps}

\* C12 (as stated): last_seen.title is a title resolved for the window
\* last_seen.xid, and it is None only when no window has the focus; failed
\* title reads (XError) for a newly focused window are among the runs.
C12_TitleOfLastWindow ==
    /\ last_seen.title = None => last_seen.xid \notin Windows
    /\ last_seen.xid \in Windows
          => last_seen.title \in ResolvableTitles(last_seen.xid) \cup {None}

\* C13 (as stated): with two or more flush tasks interleaved, each a full
\* read-modify-write of the store (load, snapshot, save), no save removes a
\* row that an earlier save wrote: the rows of the store only grow.
C13_StoreOnlyGrows ==
    [][\A i \in 1..Len(StoreRows(store)) :
          RowIn(StoreRows(store'), StoreRows(store)[i])]_vars

\* A step of the input listener: the clock, the resolver and the flush tasks
\* stand.
InputStep == now' = now /\ last_seen' = last_seen /\ flush' = flush

\* C14: an input event handled while current_title equals prev_title and the
\* gap since the last tick is at most 5 s appends no interval and leaves the
\* start of the open segment and prev_title as they were; only
\* prev_device_counter and prev_device_time are set, to the time of the event.
C14_RefreshOnly ==
    [][(InputStep /\ current_title = prev_title /\ Gap <= IdleThreshold)
       => /\ window_actives' = window_actives
          /\ start_device_time' = start_device_time
          /\ prev_title' = prev_title
          /\ prev_device_counter' = now
          /\ prev_device_time' = now]_vars

\* C14 witness: an input event has just refreshed the tick markers of a
\* segment that started earlier.
C14_Witness ==
    /\ prev_title = current_title
    /\ prev_device_counter = now
    /\ prev_device_time = now
    /\ start_device_time < now

\* The interval at the place p of the dict d.
IntervalAt(d, p) == d[p[1]].times[p[2]]

\* C17 (as stated): a closed interval ends no later than the time of the
\* step that closed it, at which the next segment opens, so that of any two
\* intervals of window_actives, of the same title or not, one ends no later
\* than the other starts; gaps strictly between 5 s and 10 s included.
C17_NoOverlap ==
    /\ \A p \in Places(window_actives) : IntervalAt(window_actives, p)[2] <= now
    /\ \A p, q \in Places(window_actives) :
          p # q => \/ IntervalAt(window_actives, p)[2]
                        <= IntervalAt(window_actives, q)[1]
                   \/ IntervalAt(window_actives, q)[2]
                        <= IntervalAt(window_actives, p)[1]

\* C18 (as stated): across flushes under memory pressure every closed
\* interval is written to the store at most once: a row occurs in the store
\* no more often than among the intervals closed so far.
C18_NoDuplicateRows ==
    \A p \in Places(window_actives) :
        LET r == RowAt(window_actives, p)
        IN  CountIn(StoreRows(store), r) <= CountHeld(window_actives, r)

\* Notifications handle_xevent does not react to: events of another type,
\* and PropertyNotify events for another atom, with any answers of the X
\* server.
UnhandledEvents ==
    {XEvent("FocusIn", a, r, FALSE, p) :
        a \in {NET_ACTIVE_WINDOW, NET_WM_NAME, WM_NAME, OtherAtom},
        r \in Responses, p \in {<<"A", Absent>>, NoProps}}
    \cup {XEvent(PropertyNotify, OtherAtom, r, FALSE, p) :
             r \in Responses, p \in {<<"A", Absent>>, NoProps}}

\* C16: a notification that is no PropertyNotify, or a PropertyNotify for an
\* atom other than _NET_ACTIVE_WINDOW, _NET_WM_NAME and WM_NAME, changes
\* nothing: in no state can handling it alter last_seen, current_title, the
\* accounting cursor or window_actives, or start a flush thread.
C16_UnhandledIgnored ==
    \A e \in UnhandledEvents :
        ~ENABLED (HandleXEventOf({e}, Tasks) /\ vars' # vars)

\* C16 witness: after a title change, a notification is ignored in a state
\* where a PropertyNotify for _NET_ACTIVE_WINDOW with the same answers would
\* be another title change.
C16_Witness ==
    /\ ~NoSignalYet
    /\ last_seen.xid \in Windows
    /\ \E e \in UnhandledEvents :
          /\ xevent_result(last_seen, e.type, e.atom, e.response, e.xerror,
                           e.netwm, e.wm) = [changed |-> FALSE, ls |-> last_seen]
          /\ xevent_result(last_seen, PropertyNotify, NET_ACTIVE_WINDOW,
                           e.response, e.xerror, e.netwm, e.wm).changed

\* PropertyNotify events for _NET_ACTIVE_WINDOW that find the property absent.
AbsentEvents ==
    {XEvent(PropertyNotify, NET_ACTIVE_WINDOW, NoResponse, x, p) :
        x \in BOOLEAN, p \in {<<"A", Absent>>, NoProps}}

\* At most the window last_seen.xid is registered; of the requests of a
\* focus change the deregistration comes first; handling a notification
\* whose _NET_ACTIVE_WINDOW is absent cannot alter last_seen or a registration.
Registrations ==
    /\ event_masks \subseteq {last_seen.xid}
    /\ \A i, j \in 1..Len(mask_requests) :
          i < j => /\ mask_requests[i].event_mask = NoEventMask
                   /\ mask_requests[j].event_mask = PropertyChangeMask
    /\ \A e \in AbsentEvents :
          ~ENABLED (/\ HandleXEventOf({e}, Tasks)
                    /\ <<last_seen, maskVars>>' # <<last_seen, maskVars>>)

\* A focus change away from a window starts with its deregistration, and a
\* focus change to a window ends with the registration of that window.
FocusChange ==
    last_seen'.xid # last_seen.xid
    => /\ last_seen.xid \in Windows
          => Head(mask_requests') =
                 [window |-> last_seen.xid, event_mask |-> NoEventMask]
       /\ last_seen'.xid \in Windows
          => mask_requests'[Len(mask_requests')] =
                 [window |-> last_seen'.xid, event_mask |-> PropertyChangeMask]

\* C15: after any sequence of notifications at most one window is registered
\* for property-change notifications and that window is last_seen.xid; on a
\* focus change the window seen before is deregistered before the new one is
\* registered; a notification that finds _NET_ACTIVE_WINDOW absent changes
\* neither last_seen.xid nor a registration.
C15_SubscriptionFollowsFocus == []Registrations /\ [][FocusChange]_vars

\* C15 witness: the focus has moved from one window to another; the old one
\* was deregistered, then the new one registered, and it alone is registered.
C15_Witness ==
    /\ Len(mask_requests) = 2
    /\ mask_requests[2].window = last_seen.xid
    /\ event_masks = {last_seen.xid}

\* check_if_device_active returns in this step.
InputHandled == input_pc # "idle" /\ input_pc' = "idle"

\* C19 (as stated): however the window listener's writes to current_title
\* interleave with a running check_if_device_active, every handled input
\* event leaves prev_device_counter and prev_device_time at the time of the
\* event, and the title the first comparison found new is the one line 226
\* stores as prev_title, to be credited an interval when it is replaced.
C19_RaceFree ==
    [][/\ InputHandled => prev_device_counter' = now /\ prev_device_time' = now
       /\ input_pc = "L226" => current_title' = current_title]_vars

====
